---------------------------- MODULE Spec2Model ----------------------------
(***************************************************************************)
(* Model of cmd/print.go of ingress2gateway: the `print` command's run     *)
(* PrintRunner.PrintGatewaysAndHTTPRoutes, which initializes the resource  *)
(* printer, resolves the namespace filter, fetches the Ingress list from a *)
(* file or from the cluster, converts it, and prints the converted         *)
(* Gateways and HTTPRoutes.                                                *)
(*                                                                         *)
(* Strings built with fmt.Errorf / fmt.Printf are sequences of tokens: the *)
(* literal parts of the format and the values substituted into it, so that *)
(* "the message contains X" is membership of X among the tokens.           *)
(***************************************************************************)
EXTENDS Naturals, Sequences, FiniteSets, TLC

VARIABLES
    outputFormat,     \* pr.outputFormat (--output/-o)
    inputFile,        \* pr.inputFile (--input_file)
    namespace,        \* pr.namespace (--namespace/-n)
    allNamespaces,    \* pr.allNamespaces (--all-namespaces/-A)
    resourcePrinter,  \* pr.resourcePrinter
    namespaceFilter,  \* pr.namespaceFilter
    pc,               \* position of the run inside PrintGatewaysAndHTTPRoutes
    ingressList,      \* local ingressList of PrintGatewaysAndHTTPRoutes
    httpRoutes,       \* local httpRoutes
    gateways,         \* local gateways
    errList,          \* local errList
    gi,               \* gateways outputResult's first loop has gone through
    ri,               \* routes outputResult's second loop has gone through
    attempts,         \* the objects handed to PrintObj, in order
    printErrs,        \* for each of them, whether PrintObj returned an error
    stdout,           \* what has been written to os.Stdout, in order
    retErr,           \* the error PrintGatewaysAndHTTPRoutes returned (NoError: nil)
    calls,            \* the calls made to collaborators outside print.go, in order
    lookup,           \* what getNamespaceInCurrentContext answered, if called
    world             \* what the file system / the cluster answered, if asked

vars == <<outputFormat, inputFile, namespace, allNamespaces, resourcePrinter,
          namespaceFilter, pc, ingressList, httpRoutes, gateways, errList,
          gi, ri, attempts, printErrs, stdout, retErr, calls, lookup, world>>

-----------------------------------------------------------------------------
(* Bounds of the model. *)

\* longest file (in documents) and largest cluster (in ingresses) enumerated
MaxDocs == 3
\* most gateways the conversion returns
MaxGateways == 2
\* most routes the conversion returns
MaxRoutes == 2
\* most errors the conversion returns
MaxErrs == 2

RECURSIVE SeqsUpTo(_, _)
\* all sequences over S of length at most n
SeqsUpTo(S, n) ==
    IF n = 0 THEN {<<>>}
    ELSE LET shorter == SeqsUpTo(S, n - 1)
         IN  shorter \cup {Append(s, x) : s \in shorter, x \in S}

Range(s) == {s[i] : i \in 1..Len(s)}

-----------------------------------------------------------------------------
(* Values. *)

\* the nil error
NoError == <<>>

\* fmt.Errorf("<prefix>: %w", err)
Wrap(prefix, err) == <<prefix>> \o err

Doc(kind, name, ns) == [kind |-> kind, name |-> name, namespace |-> ns]

\* pkg/i2gw/testdata/input-file.yaml, document by document; an absent
\* metadata.namespace is the empty string, as in metav1.ObjectMeta
InputFileYaml ==
    << Doc("Deployment", "nginx-deployment", ""),
       Doc("Pod", "nginx", ""),
       Doc("Ingress", "ingress1", "namespace1"),
       Doc("Ingress", "ingress2", "namespace2"),
       Doc("Ingress", "ingress-no-namespace", "") >>

Namespaces == {"namespace1", "namespace2"}

\* values of the --output flag tried: the two formats, the unset value, and
\* two the printer does not know
OutputFormats == {"yaml", "", "json", "xml", "wide"}

\* a *networkingv1.IngressList: nil, or a list with Items
NilList == [isNil |-> TRUE, Items |-> <<>>]
List(items) == [isNil |-> FALSE, Items |-> items]


-----------------------------------------------------------------------------
(* initializeResourcePrinter *)

\* the same, but an unknown format falls back to the YAML printer
InitializeResourcePrinterLenient(format) ==
    IF format = "json"
    THEN [printer |-> "JSONPrinter", err |-> NoError]
    ELSE [printer |-> "YAMLPrinter", err |-> NoError]

\* the printer chosen for pr.outputFormat, and the error returned
InitializeResourcePrinter(format) ==
    CASE format \in {"yaml", ""} -> [printer |-> "YAMLPrinter", err |-> NoError]
      [] format = "json"         -> [printer |-> "JSONPrinter", err |-> NoError]
      [] OTHER -> [printer |-> "nil",
                   err |-> <<format, "is not a supported output format">>]

-----------------------------------------------------------------------------
(* getNamespaceInCurrentContext and initializeNamespaceFilter *)

\* the lookup was not made
NotCalled == [called |-> FALSE, ns |-> "", err |-> NoError]

\* what kubeConfig.Namespace() hands back, passed on unchanged by
\* getNamespaceInCurrentContext: the namespace of the current context with a
\* nil error, or an error, and with it the empty namespace
KubeConfigNamespace ==
    {[ns |-> n, err |-> NoError] : n \in Namespaces}
        \cup {[ns |-> "", err |-> <<"invalid configuration">>]}

\* getNamespaceInCurrentContext() returning what the kubeconfig answered
GetNamespaceInCurrentContext(answer) ==
    [called |-> TRUE, ns |-> answer.ns, err |-> answer.err]

\* the same, with --namespace consulted before --all-namespaces
InitializeNamespaceFilterNamespaceFirst(all, ns, file, old, answer) ==
    IF ns # ""
    THEN [filter |-> ns, err |-> NoError, lookup |-> NotCalled]
    ELSE IF all
    THEN [filter |-> "", err |-> NoError, lookup |-> NotCalled]
    ELSE LET got == GetNamespaceInCurrentContext(answer)
         IN  IF got.err # NoError /\ file = ""
             THEN [filter |-> old, err |-> got.err, lookup |-> got]
             ELSE [filter |-> got.ns, err |-> NoError, lookup |-> got]

\* the same, with a failed lookup never fatal (the inputFile test dropped)
InitializeNamespaceFilterAlwaysDegrade(all, ns, file, old, answer) ==
    IF all
    THEN [filter |-> "", err |-> NoError, lookup |-> NotCalled]
    ELSE IF ns = ""
    THEN LET got == GetNamespaceInCurrentContext(answer)
         IN  [filter |-> got.ns, err |-> NoError, lookup |-> got]
    ELSE [filter |-> ns, err |-> NoError, lookup |-> NotCalled]

\* the same, with a failed lookup fatal for file-backed runs too (the
\* inputFile test dropped the other way)
InitializeNamespaceFilterAlwaysFatal(all, ns, file, old, answer) ==
    IF all
    THEN [filter |-> "", err |-> NoError, lookup |-> NotCalled]
    ELSE IF ns = ""
    THEN LET got == GetNamespaceInCurrentContext(answer)
         IN  IF got.err # NoError
             THEN [filter |-> old, err |-> got.err, lookup |-> got]
             ELSE [filter |-> got.ns, err |-> NoError, lookup |-> got]
    ELSE [filter |-> ns, err |-> NoError, lookup |-> NotCalled]

\* pr.initializeNamespaceFilter(): the new pr.namespaceFilter (old: its value
\* before the call), the error returned, and the lookup made
InitializeNamespaceFilter(all, ns, file, old, answer) ==
    IF all
    THEN [filter |-> "", err |-> NoError, lookup |-> NotCalled]
    ELSE IF ns = ""
    THEN LET got == GetNamespaceInCurrentContext(answer)
         IN  IF got.err # NoError /\ file = ""
             THEN [filter |-> old, err |-> got.err, lookup |-> got]
             ELSE [filter |-> got.ns, err |-> NoError, lookup |-> got]
    ELSE [filter |-> ns, err |-> NoError, lookup |-> NotCalled]

-----------------------------------------------------------------------------
(* getIngessList *)

\* Nothing outside the process was asked yet.
NotAsked == [docs |-> <<>>, fault |-> "unasked"]

\* The world a file-backed fetch meets: the documents of the file at
\* inputFile, or a file that cannot be read or parsed.
FileWorlds(files) ==
    {[docs |-> f, fault |-> "none"] : f \in files}
        \cup {[docs |-> <<>>, fault |-> "file"]}

\* The world a cluster-backed fetch meets: the Ingresses of the cluster, or a
\* failure of config.GetConfig, of client.New or of the List query.
ClusterWorlds(clusters) ==
    {[docs |-> c, fault |-> "none"] : c \in clusters}
        \cup {[docs |-> <<>>, fault |-> x] : x \in {"config", "client", "list"}}

\* the same, keeping an Ingress without namespace under every filter
ConstructIngressesFromFileKeepUnscoped(w, filter) ==
    IF w.fault = "file"
    THEN [items |-> <<>>, err |-> <<"open", "no such file or directory">>]
    ELSE LET Keep(d) ==
                 /\ d.kind = "Ingress"
                 /\ (filter = "" \/ d.namespace = "" \/ d.namespace = filter)
         IN  [items |-> SelectSeq(w.docs, Keep), err |-> NoError]

\* i2gw.ConstructIngressesFromFile: the Ingress-kind documents of the file
\* whose namespace passes the filter, in file order
ConstructIngressesFromFile(w, filter) ==
    IF w.fault = "file"
    THEN [items |-> <<>>, err |-> <<"open", "no such file or directory">>]
    ELSE LET Keep(d) == /\ d.kind = "Ingress"
                        /\ (filter = "" \/ d.namespace = filter)
         IN  [items |-> SelectSeq(w.docs, Keep), err |-> NoError]

\* i2gw.ConstructIngressesFromCluster on a client scoped to clientNamespace
\* by client.NewNamespacedClient ("" scopes to every namespace)
ConstructIngressesFromCluster(w, clientNamespace) ==
    IF w.fault = "list"
    THEN [items |-> <<>>, err |-> <<"connection refused">>]
    ELSE LET Keep(d) == clientNamespace = "" \/ d.namespace = clientNamespace
         IN  [items |-> SelectSeq(w.docs, Keep), err |-> NoError]

\* the error of an empty result
NoResourcesFound(filter) ==
    IF filter # ""
    THEN <<"No resources found", "in", filter, "namespace">>
    ELSE <<"No resources found">>

\* the same, returning an empty list as a success
GetIngessListAllowEmpty(filter, file, w) ==
    IF file # ""
    THEN LET r == ConstructIngressesFromFile(w, filter)
             c == <<"ConstructIngressesFromFile">>
         IN  IF r.err # NoError
             THEN [list |-> NilList, calls |-> c,
                   err |-> Wrap("failed to open input file", r.err)]
             ELSE [list |-> List(r.items), err |-> NoError, calls |-> c]
    ELSE IF w.fault = "config"
    THEN [list |-> NilList, calls |-> <<"config.GetConfig">>,
          err |-> Wrap("failed to get client config", <<"no configuration">>)]
    ELSE IF w.fault = "client"
    THEN [list |-> NilList, calls |-> <<"config.GetConfig", "client.New">>,
          err |-> Wrap("failed to create client", <<"no REST mapper">>)]
    ELSE LET r == ConstructIngressesFromCluster(w, filter)
             c == <<"config.GetConfig", "client.New",
                    "ConstructIngressesFromCluster">>
         IN  IF r.err # NoError
             THEN [list |-> NilList, calls |-> c,
                   err |-> Wrap("failed to get ingress resources from kubenetes cluster", r.err)]
             ELSE [list |-> List(r.items), err |-> NoError, calls |-> c]

\* the same, reading the file without the namespace filter
GetIngessListUnfiltered(filter, file, w) ==
    LET r == GetIngessListAllowEmpty(IF file # "" THEN "" ELSE filter, file, w)
    IN  IF r.err = NoError /\ Len(r.list.Items) = 0
        THEN [list |-> NilList, err |-> NoResourcesFound(filter), calls |-> r.calls]
        ELSE r

\* getIngessList(namespaceFilter, inputFile) in world w: the list and the
\* error returned, and the collaborators called on the way
GetIngessList(filter, file, w) ==
    LET acquired ==
            IF file # ""
            THEN LET r == ConstructIngressesFromFile(w, filter)
                     c == <<"ConstructIngressesFromFile">>
                 IN  IF r.err # NoError
                     THEN [list |-> NilList, calls |-> c,
                           err |-> Wrap("failed to open input file", r.err)]
                     ELSE [list |-> List(r.items), err |-> NoError, calls |-> c]
            ELSE IF w.fault = "config"
            THEN [list |-> NilList, calls |-> <<"config.GetConfig">>,
                  err |-> Wrap("failed to get client config", <<"no configuration">>)]
            ELSE IF w.fault = "client"
            THEN [list |-> NilList, calls |-> <<"config.GetConfig", "client.New">>,
                  err |-> Wrap("failed to create client", <<"no REST mapper">>)]
            ELSE LET r == ConstructIngressesFromCluster(w, filter)
                     c == <<"config.GetConfig", "client.New",
                            "ConstructIngressesFromCluster">>
                 IN  IF r.err # NoError
                     THEN [list |-> NilList, calls |-> c,
                           err |-> Wrap("failed to get ingress resources from kubenetes cluster", r.err)]
                     ELSE [list |-> List(r.items), err |-> NoError, calls |-> c]
    IN  IF acquired.err = NoError /\ Len(acquired.list.Items) = 0
        THEN [list |-> NilList, err |-> NoResourcesFound(filter),
              calls |-> acquired.calls]
        ELSE acquired

-----------------------------------------------------------------------------
(* i2gw.Ingresses2GatewaysAndHTTPRoutes and the aggregation of its errors *)

Rec(kind, name) == [kind |-> kind, Name |-> name]

GatewayRecs == {Rec("Gateway", n) : n \in {"ingressClass1", "ingressClass2"}}

HTTPRouteRecs == {Rec("HTTPRoute", n) : n \in {"ingress1", "ingress2"}}

ConversionErrors == {"host is empty", "backend is not a service"}

\* every (httpRoutes, gateways, errList) the conversion may return
Ingresses2GatewaysAndHTTPRoutes(items) ==
    [httpRoutes : SeqsUpTo(HTTPRouteRecs, MaxRoutes),
     gateways : SeqsUpTo(GatewayRecs, MaxGateways),
     errList : SeqsUpTo(ConversionErrors, MaxErrs)]

RECURSIVE WrapEach(_, _)
\* the loop errMsg = fmt.Errorf("\n%w # %s", errMsg, err) over errs
WrapEach(errMsg, errs) ==
    IF errs = <<>> THEN errMsg
    ELSE WrapEach(errMsg \o <<"#", Head(errs)>>, Tail(errs))

\* the same, each iteration dropping the message built so far (no %w)
AggregateErrorsLastOnly(errs) ==
    <<"# Encountered", ToString(Len(errs)), "errors">>
        \o (IF errs = <<>> THEN <<>> ELSE <<"#", errs[Len(errs)]>>)

\* the error returned for a non-empty errList
AggregateErrors(errs) ==
    WrapEach(<<"# Encountered", ToString(Len(errs)), "errors">>, errs)

-----------------------------------------------------------------------------
(* outputResult *)

\* the same, with the routes' loop before the gateways' loop
OutputResultLoopRoutesFirst(gws, rts, g, r) ==
    IF r < Len(rts) THEN "httpRoutes"
    ELSE IF g < Len(gws) THEN "gateways"
    ELSE "return"

\* where outputResult stands after g gateways and r routes: in its first
\* loop, in its second loop, or at its end
OutputResultLoop(gws, rts, g, r) ==
    IF g < Len(gws) THEN "gateways"
    ELSE IF r < Len(rts) THEN "httpRoutes"
    ELSE "return"

\* the same, with a failed PrintObj passed over in silence
OutputOneSilent(rec, failed) ==
    IF failed THEN <<>>
    ELSE <<[t |-> "object", kind |-> rec.kind, Name |-> rec.Name]>>

\* what one loop iteration writes to os.Stdout: the object PrintObj rendered,
\* or the line "# Error printing <Name> HTTPRoute: <err>" (the word HTTPRoute
\* in both loops); a PrintObj that fails is taken to have written nothing
OutputOne(rec, failed) ==
    IF failed
    THEN <<[t |-> "diagnostic", kind |-> "HTTPRoute", Name |-> rec.Name]>>
    ELSE <<[t |-> "object", kind |-> rec.kind, Name |-> rec.Name]>>

-----------------------------------------------------------------------------
(* PrintGatewaysAndHTTPRoutes *)

Stages == <<"Init", "ResolveNamespace", "FetchResources", "Convert", "Render", "Done">>

\* the same, with a failed conversion falling through to outputResult
NextStageNoReturnOnConversionErrors(stage, err) ==
    CASE stage = "Init" -> IF err # NoError THEN "Error" ELSE "ResolveNamespace"
      [] stage = "ResolveNamespace" -> IF err # NoError THEN "Error" ELSE "FetchResources"
      [] stage = "FetchResources" -> IF err # NoError THEN "Error" ELSE "Convert"
      [] stage = "Convert" -> "Render"
      [] stage = "Render" -> "Done"

\* where the run goes when the step of `stage` ended with err: every
\* `if err != nil { return ... }`, and the final `return nil`
NextStage(stage, err) ==
    CASE stage = "Init" -> IF err # NoError THEN "Error" ELSE "ResolveNamespace"
      [] stage = "ResolveNamespace" -> IF err # NoError THEN "Error" ELSE "FetchResources"
      [] stage = "FetchResources" -> IF err # NoError THEN "Error" ELSE "Convert"
      [] stage = "Convert" -> IF err # NoError THEN "Error" ELSE "Render"
      [] stage = "Render" -> "Done"

\* the error the run returns when the step of `stage` ended with err
ReturnedError(stage, err) ==
    IF err = NoError THEN NoError
    ELSE CASE stage = "Init" -> Wrap("failed to initialize resrouce printer", err)
           [] stage = "ResolveNamespace" -> Wrap("failed to initialize namespace filter", err)
           [] stage = "FetchResources" -> Wrap("failed to get ingresses from source", err)
           [] stage = "Convert" -> err

-----------------------------------------------------------------------------
(* The run, step by step. *)

\* The files and clusters a full run is tried on: the test data file, a file
\* with no Ingress in it, a file with a single Ingress; an empty cluster, a
\* cluster with one Ingress, and one with an Ingress in each namespace.
RunFiles ==
    {InputFileYaml, SubSeq(InputFileYaml, 1, 2), SubSeq(InputFileYaml, 3, 3)}

RunClusters ==
    {<<>>, SubSeq(InputFileYaml, 3, 3), SubSeq(InputFileYaml, 3, 4)}

\* The files and clusters getIngessList alone is tried on: every sequence of
\* at most MaxDocs documents of the test data file, and that file itself; a
\* cluster holds Ingresses only, each in a namespace.
FetchFiles == SeqsUpTo(Range(InputFileYaml), MaxDocs) \cup {InputFileYaml}

FetchClusters ==
    SeqsUpTo({d \in Range(InputFileYaml) : d.kind = "Ingress" /\ d.namespace # ""},
             MaxDocs)

\* newPrintCommand, and the flags cobra has parsed into the PrintRunner.
\* --namespace and --all-namespaces are marked mutually exclusive, so a run
\* started from the command never has both.
Init ==
    /\ outputFormat \in OutputFormats
    /\ inputFile \in {"", "input-file.yaml"}
    /\ namespace \in Namespaces \cup {""}
    /\ allNamespaces \in BOOLEAN
    /\ ~(allNamespaces /\ namespace # "")
    /\ resourcePrinter = "nil"
    /\ namespaceFilter = ""
    /\ pc = "Init"
    /\ ingressList = NilList
    /\ httpRoutes = <<>>
    /\ gateways = <<>>
    /\ errList = <<>>
    /\ gi = 0
    /\ ri = 0
    /\ attempts = <<>>
    /\ printErrs = <<>>
    /\ stdout = <<>>
    /\ retErr = NoError
    /\ calls = <<>>
    /\ lookup = NotCalled
    /\ world = NotAsked

\* err := pr.initializeResourcePrinter(), and the return on its error
InitializeResourcePrinterStep ==
    /\ pc = "Init"
    /\ LET r == InitializeResourcePrinter(outputFormat)
       IN  /\ resourcePrinter' = r.printer
           /\ pc' = NextStage("Init", r.err)
           /\ retErr' = ReturnedError("Init", r.err)
    /\ UNCHANGED <<outputFormat, inputFile, namespace, allNamespaces,
                   namespaceFilter, ingressList, httpRoutes, gateways, errList,
                   gi, ri, attempts, printErrs, stdout, calls, lookup, world>>

\* err = pr.initializeNamespaceFilter(), and the return on its error
InitializeNamespaceFilterStep ==
    /\ pc = "ResolveNamespace"
    /\ \E answer \in KubeConfigNamespace :
         LET r == InitializeNamespaceFilter(allNamespaces, namespace, inputFile,
                                            namespaceFilter, answer)
         IN  /\ namespaceFilter' = r.filter
             /\ lookup' = r.lookup
             /\ calls' = IF r.lookup.called
                         THEN Append(calls, "getNamespaceInCurrentContext")
                         ELSE calls
             /\ pc' = NextStage("ResolveNamespace", r.err)
             /\ retErr' = ReturnedError("ResolveNamespace", r.err)
    /\ UNCHANGED <<outputFormat, inputFile, namespace, allNamespaces,
                   resourcePrinter, ingressList, httpRoutes, gateways, errList,
                   gi, ri, attempts, printErrs, stdout, world>>

\* ingressList, err := getIngessList(pr.namespaceFilter, pr.inputFile), and
\* the return on its error
GetIngessListStep(files, clusters) ==
    /\ pc = "FetchResources"
    /\ \E w \in (IF inputFile # "" THEN FileWorlds(files) ELSE ClusterWorlds(clusters)) :
         LET r == GetIngessList(namespaceFilter, inputFile, w)
         IN  /\ world' = w
             /\ ingressList' = r.list
             /\ calls' = calls \o r.calls
             /\ pc' = NextStage("FetchResources", r.err)
             /\ retErr' = ReturnedError("FetchResources", r.err)
    /\ UNCHANGED <<outputFormat, inputFile, namespace, allNamespaces,
                   resourcePrinter, namespaceFilter, httpRoutes, gateways,
                   errList, gi, ri, attempts, printErrs, stdout, lookup>>

\* httpRoutes, gateways, errList := i2gw.Ingresses2GatewaysAndHTTPRoutes(...),
\* and the return of the aggregated error when errList is not empty
ConvertStep ==
    /\ pc = "Convert"
    /\ \E out \in Ingresses2GatewaysAndHTTPRoutes(ingressList.Items) :
         LET err == IF Len(out.errList) > 0
                    THEN AggregateErrors(out.errList)
                    ELSE NoError
         IN  /\ httpRoutes' = out.httpRoutes
             /\ gateways' = out.gateways
             /\ errList' = out.errList
             /\ calls' = Append(calls, "Ingresses2GatewaysAndHTTPRoutes")
             /\ pc' = NextStage("Convert", err)
             /\ retErr' = ReturnedError("Convert", err)
    /\ UNCHANGED <<outputFormat, inputFile, namespace, allNamespaces,
                   resourcePrinter, namespaceFilter, ingressList, gi, ri,
                   attempts, printErrs, stdout, lookup, world>>

\* one iteration of outputResult's loop over gateways
PrintGateway ==
    /\ pc = "Render"
    /\ OutputResultLoop(gateways, httpRoutes, gi, ri) = "gateways"
    /\ \E failed \in BOOLEAN :
         /\ attempts' = Append(attempts, gateways[gi + 1])
         /\ printErrs' = Append(printErrs, failed)
         /\ stdout' = stdout \o OutputOne(gateways[gi + 1], failed)
    /\ gi' = gi + 1
    /\ calls' = Append(calls, "PrintObj")
    /\ UNCHANGED <<outputFormat, inputFile, namespace, allNamespaces,
                   resourcePrinter, namespaceFilter, pc, ingressList, httpRoutes,
                   gateways, errList, ri, retErr, lookup, world>>

\* one iteration of outputResult's loop over httpRoutes
PrintHTTPRoute ==
    /\ pc = "Render"
    /\ OutputResultLoop(gateways, httpRoutes, gi, ri) = "httpRoutes"
    /\ \E failed \in BOOLEAN :
         /\ attempts' = Append(attempts, httpRoutes[ri + 1])
         /\ printErrs' = Append(printErrs, failed)
         /\ stdout' = stdout \o OutputOne(httpRoutes[ri + 1], failed)
    /\ ri' = ri + 1
    /\ calls' = Append(calls, "PrintObj")
    /\ UNCHANGED <<outputFormat, inputFile, namespace, allNamespaces,
                   resourcePrinter, namespaceFilter, pc, ingressList, httpRoutes,
                   gateways, errList, gi, retErr, lookup, world>>

\* the end of outputResult, and `return nil`
ReturnNil ==
    /\ pc = "Render"
    /\ OutputResultLoop(gateways, httpRoutes, gi, ri) = "return"
    /\ pc' = NextStage("Render", NoError)
    /\ retErr' = NoError
    /\ UNCHANGED <<outputFormat, inputFile, namespace, allNamespaces,
                   resourcePrinter, namespaceFilter, ingressList, httpRoutes,
                   gateways, errList, gi, ri, attempts, printErrs, stdout,
                   calls, lookup, world>>

FetchRun == GetIngessListStep(RunFiles, RunClusters)

Next ==
    \/ InitializeResourcePrinterStep
    \/ InitializeNamespaceFilterStep
    \/ FetchRun
    \/ ConvertStep
    \/ PrintGateway
    \/ PrintHTTPRoute
    \/ ReturnNil

Spec == Init /\ [][Next]_vars

-----------------------------------------------------------------------------
(* initializeNamespaceFilter on its own: the method called on a PrintRunner  *)
(* with any fields, as code of package cmd can call it. The method does not  *)
(* rely on the flags' mutual exclusion, so both may be set here, and         *)
(* namespaceFilter may hold any earlier value.                               *)

InitResolve ==
    /\ outputFormat \in {"yaml", "", "json"}
    /\ inputFile \in {"", "input-file.yaml"}
    /\ namespace \in Namespaces \cup {""}
    /\ allNamespaces \in BOOLEAN
    /\ resourcePrinter = InitializeResourcePrinter(outputFormat).printer
    /\ namespaceFilter \in Namespaces \cup {""}
    /\ pc = "ResolveNamespace"
    /\ ingressList = NilList
    /\ httpRoutes = <<>>
    /\ gateways = <<>>
    /\ errList = <<>>
    /\ gi = 0
    /\ ri = 0
    /\ attempts = <<>>
    /\ printErrs = <<>>
    /\ stdout = <<>>
    /\ retErr = NoError
    /\ calls = <<>>
    /\ lookup = NotCalled
    /\ world = NotAsked

NextResolve == InitializeNamespaceFilterStep

SpecResolve == InitResolve /\ [][NextResolve]_vars

-----------------------------------------------------------------------------
(* getIngessList on its own: called with every filter, with and without an  *)
(* input file, on every file and cluster of FetchFiles and FetchClusters.   *)

InitFetch ==
    /\ outputFormat \in {"yaml", "json"}
    /\ inputFile \in {"", "input-file.yaml"}
    /\ namespace \in Namespaces \cup {""}
    /\ allNamespaces = (namespace = "")
    /\ resourcePrinter = InitializeResourcePrinter(outputFormat).printer
    /\ namespaceFilter = namespace
    /\ pc = "FetchResources"
    /\ ingressList = NilList
    /\ httpRoutes = <<>>
    /\ gateways = <<>>
    /\ errList = <<>>
    /\ gi = 0
    /\ ri = 0
    /\ attempts = <<>>
    /\ printErrs = <<>>
    /\ stdout = <<>>
    /\ retErr = NoError
    /\ calls = <<>>
    /\ lookup = NotCalled
    /\ world = NotAsked

FetchAny == GetIngessListStep(FetchFiles, FetchClusters)

NextFetch == FetchAny

SpecFetch == InitFetch /\ [][NextFetch]_vars

-----------------------------------------------------------------------------
(* Properties of the run (checked under Spec; C3 under SpecResolve). *)

\* initializeNamespaceFilter has returned in this run
NamespaceResolved ==
    \/ pc \in {"FetchResources", "Convert", "Render", "Done"}
    \/ pc = "Error" /\ retErr[1] # "failed to initialize resrouce printer"

\* the run was ended by initializeNamespaceFilter's error
NamespaceFatal ==
    pc = "Error" /\ retErr[1] = "failed to initialize namespace filter"

\* C1: when the conversion returns a non-empty error list, the run returns
\* one error made of the count of errors and of every message of the list,
\* in order, and outputResult is not entered: nothing is handed to PrintObj
\* and nothing is written to the output.
C1_ConversionErrorsAggregated ==
    Len(errList) > 0 =>
        /\ pc = "Error"
        /\ retErr # NoError
        /\ retErr[2] = ToString(Len(errList))
        /\ \A i \in 1..Len(errList) : errList[i] \in Range(retErr)
        /\ SelectSeq(retErr, LAMBDA t : t \in ConversionErrors) = errList
        /\ attempts = <<>>
        /\ printErrs = <<>>
        /\ stdout = <<>>
        /\ gi = 0 /\ ri = 0
        /\ "PrintObj" \notin Range(calls)

\* C1 witness: two different errors returned along with gateways and routes
C1_Witness ==
    /\ pc = "Error"
    /\ Len(errList) = 2 /\ errList[1] # errList[2]
    /\ Len(gateways) > 0 /\ Len(httpRoutes) > 0

\* C2: with an output format that is neither yaml (or the unset value, which
\* selects yaml) nor json, the run ends at once with the unsupported-format
\* error: no namespace lookup, no file read, no cluster access, no conversion
\* and no rendering has happened.
C2_UnsupportedFormatFailsFast ==
    (outputFormat \notin {"yaml", "", "json"} /\ pc # "Init") =>
        /\ pc = "Error"
        /\ retErr = <<"failed to initialize resrouce printer", outputFormat,
                      "is not a supported output format">>
        /\ calls = <<>>
        /\ lookup = NotCalled
        /\ world = NotAsked
        /\ ingressList = NilList
        /\ gateways = <<>> /\ httpRoutes = <<>> /\ errList = <<>>
        /\ attempts = <<>> /\ stdout = <<>>

\* C2 witness: the run asked for xml has ended
C2_Witness == outputFormat = "xml" /\ pc = "Error"

\* C3: with allNamespaces set, initializeNamespaceFilter succeeds and leaves
\* the empty filter, whatever the explicit namespace, the input file and the
\* ambient lookup's answer.
C3_AllNamespacesPrecedence ==
    (allNamespaces /\ NamespaceResolved) =>
        /\ namespaceFilter = ""
        /\ ~NamespaceFatal

\* C3 witness: the method has returned on a PrintRunner with allNamespaces
\* and a namespace both set, without input file
C3_Witness ==
    /\ allNamespaces /\ namespace # "" /\ inputFile = ""
    /\ pc = "FetchResources"
    /\ namespaceFilter = ""

\* C4: in a run without input file and without explicit namespace in which
\* the ambient-namespace lookup fails, initializeNamespaceFilter returns that
\* error and the run ends with it, nothing fetched, converted or rendered.
C4_ClusterLookupFailureFatal ==
    (inputFile = "" /\ namespace = "" /\ lookup.called /\ lookup.err # NoError) =>
        /\ pc = "Error"
        /\ retErr = Wrap("failed to initialize namespace filter", lookup.err)
        /\ calls = <<"getNamespaceInCurrentContext">>
        /\ world = NotAsked
        /\ ingressList = NilList
        /\ gateways = <<>> /\ httpRoutes = <<>> /\ errList = <<>>
        /\ attempts = <<>> /\ stdout = <<>>

\* C4 witness: a cluster-backed run whose lookup failed
C4_Witness ==
    /\ inputFile = "" /\ namespace = ""
    /\ lookup.called /\ lookup.err # NoError
    /\ pc = "Error"

C7_LinearStages ==
    [][ /\ pc \notin {"Done", "Error"}
        /\ pc' = pc => pc = "Render"
        /\ pc' # pc =>
             \/ /\ pc' = "Error"
                /\ pc \in {"Init", "ResolveNamespace", "FetchResources", "Convert"}
                /\ retErr' # NoError
             \/ /\ \E i \in 1..5 : pc = Stages[i] /\ pc' = Stages[i + 1]
                /\ retErr' = NoError
                /\ errList' = <<>>
      ]_vars

\* C7 witness: a run that went through every stage and printed something
C7_Witness ==
    /\ pc = "Done"
    /\ Len(attempts) > 0
    /\ Len(calls) >= 3

\* C8: a failed PrintObj does not end the run: each record handed to PrintObj
\* leaves exactly one entry on the output, a diagnostic line with the
\* record's name when PrintObj failed and the object when it did not, the
\* run goes on to hand over every record, whichever of them failed, and it
\* ends in Done with a nil error.
C8_RenderFailuresNonFatal ==
    /\ pc \in {"Render", "Done"} =>
         /\ retErr = NoError
         /\ Len(stdout) = Len(attempts)
         /\ Len(printErrs) = Len(attempts)
         /\ \A i \in 1..Len(stdout) :
              /\ stdout[i].Name = attempts[i].Name
              /\ stdout[i].t = (IF printErrs[i] THEN "diagnostic" ELSE "object")
    /\ pc = "Done" => Len(attempts) = Len(gateways) + Len(httpRoutes)
    /\ attempts # <<>> => pc \in {"Render", "Done"}

\* C8 witness: a finished run whose first gateway failed to print and whose
\* last route printed
C8_Witness ==
    /\ pc = "Done"
    /\ Len(gateways) = 2 /\ Len(httpRoutes) = 2
    /\ printErrs = <<TRUE, FALSE, TRUE, FALSE>>
    /\ stdout[1].t = "diagnostic"
    /\ stdout[4].t = "object"

\* C9: the records handed to PrintObj are, at every moment, the first ones of
\* the gateways in order followed by the routes in order, no route before
\* the last gateway, and at the end all of them; the objects on the output
\* stand at their record's position in that order.
C9_RenderOrder ==
    LET all == gateways \o httpRoutes
    IN  /\ Len(attempts) = gi + ri
        /\ Len(attempts) <= Len(all)
        /\ attempts = SubSeq(all, 1, Len(attempts))
        /\ ri > 0 => gi = Len(gateways)
        /\ pc = "Done" => attempts = all
        /\ \A i \in 1..Len(stdout) :
             stdout[i].t = "object" =>
                 i <= Len(all) /\ Rec(stdout[i].kind, stdout[i].Name) = all[i]

\* C9 witness: a finished run over two different gateways and two routes
C9_Witness ==
    /\ pc = "Done"
    /\ Len(gateways) = 2 /\ gateways[1] # gateways[2]
    /\ Len(httpRoutes) = 2
    /\ Len(attempts) = 4

-----------------------------------------------------------------------------
(* Properties of getIngessList (checked under SpecFetch). *)

\* document d is an Ingress that passes the filter
Passes(d, filter) ==
    /\ d.kind = "Ingress"
    /\ (filter = "" \/ d.namespace = filter)

\* the positions in docs of the Ingresses that pass the filter
PassingPositions(docs, filter) ==
    {i \in 1..Len(docs) : Passes(docs[i], filter)}

\* C6: getIngessList returns either a non-nil list with at least one item and
\* no error, or a nil list and an error; when the source was read and nothing
\* passed, the error is "No resources found in <filter> namespace" for a
\* non-empty filter and "No resources found" for the empty one, so that it
\* names the filter exactly when the filter is not empty.
C6_NeverEmptySuccess ==
    pc # "FetchResources" =>
        /\ retErr = NoError =>
             /\ pc = "Convert"
             /\ ~ingressList.isNil
             /\ Len(ingressList.Items) >= 1
        /\ retErr # NoError =>
             /\ pc = "Error"
             /\ ingressList = NilList
        /\ (world.fault = "none" /\ PassingPositions(world.docs, namespaceFilter) = {}) =>
             /\ retErr = Wrap("failed to get ingresses from source",
                              IF namespaceFilter # ""
                              THEN <<"No resources found", "in", namespaceFilter, "namespace">>
                              ELSE <<"No resources found">>)
             /\ (namespaceFilter \in Range(retErr)) <=> (namespaceFilter # "")

\* C6 witness: a readable file with documents, none of them in the namespace
\* asked for
C6_Witness ==
    /\ pc = "Error"
    /\ inputFile # "" /\ namespaceFilter = "namespace2"
    /\ world.fault = "none" /\ Len(world.docs) > 0
    /\ "namespace2" \in Range(retErr)

\* C10: read from a file, the fetched list is the file's Ingress documents
\* whose namespace is the filter, or all its Ingress documents under the
\* empty filter, in file order; documents of other kinds are left out and
\* raise no error; an Ingress without namespace stays only under the empty
\* filter.
C10_FileNamespaceScoping ==
    (inputFile # "" /\ pc # "FetchResources" /\ world.fault = "none") =>
        LET keep == PassingPositions(world.docs, namespaceFilter)
            items == ingressList.Items
        IN  /\ Len(items) = Cardinality(keep)
            /\ \A k \in 1..Len(items) :
                 \E i \in keep :
                    /\ items[k] = world.docs[i]
                    /\ Cardinality({j \in keep : j <= i}) = k
            /\ \A k \in 1..Len(items) :
                 /\ items[k].kind = "Ingress"
                 /\ items[k].namespace = "" => namespaceFilter = ""
            /\ keep # {} <=> pc = "Convert"
            /\ keep = {} => pc = "Error"

\* C10 witness: the test data file read with filter namespace2 yields
\* ingress2 alone
C10_Witness ==
    /\ pc = "Convert"
    /\ inputFile # "" /\ namespaceFilter = "namespace2"
    /\ world.docs = InputFileYaml
    /\ ingressList.Items = <<Doc("Ingress", "ingress2", "namespace2")>>

=============================================================================
